---- MODULE Spec2Model ----
(***************************************************************************)
(* Student Skill Assistant API (src/backend/server.py): the document       *)
(* store (students, test_results), registration and login, bearer-token    *)
(* validation, route dispatch, quiz scoring, level bucketing, latest-level *)
(* aggregation and course recommendation.                                  *)
(*                                                                         *)
(* Spec is the whole server.  AuthSpec, SeqSpec and QuizSpec run subsets   *)
(* of its actions (every behaviour of AuthSpec and SeqSpec is a behaviour  *)
(* of Spec; QuizSpec starts in a state Spec reaches, see QuizInit).        *)
(* ProtectedSpec calls every token-protected route with every kind of      *)
(* Authorization header and ChatSpec runs the chat route beside            *)
(* submissions, both from QuizInit.                                        *)
(* LevelSpec and ScoreSpec apply the pure functions to bounded inputs.     *)
(***************************************************************************)
EXTENDS Integers, Sequences, FiniteSets, TLC

VARIABLES
  students,      \* db.students, in insertion (natural) order
  test_results,  \* db.test_results, in insertion (natural) order
  now,           \* the wall clock, datetime.now(timezone.utc), in minutes
  task,          \* task[p]: the request task p is serving and where it awaits
  resp,          \* the last response sent, with the request it answers
  probe          \* the argument and result of a pure function under test

vars == <<students, test_results, now, task, resp, probe>>

(***************************************************************************)
(* Bounds of the model.                                                    *)
(***************************************************************************)
MaxStudents == 2      \* registrations accepted (stored or awaiting insert)
MaxResults == 2       \* submissions accepted (stored or awaiting insert)
TickMinutes == 120    \* minutes the clock advances in one Tick
MaxTime == 240        \* the clock stops here
MaxRepeat == 11       \* longest answer list made of one repeated answer
MaxLen == 3           \* longest answer list enumerated exhaustively
MaxPct == 12000       \* largest percentage probed, in hundredths

Procs == {"p1", "p2"} \* concurrent request tasks of the event loop

(***************************************************************************)
(* Environment & DB setup (server.py 35-37).                               *)
(***************************************************************************)
JWT_SECRET == "change_this_secret"
JWT_ALGORITHM == "HS256"
JWT_EXPIRES_MINUTES == 120

(***************************************************************************)
(* Static data: questions, courses, docs (server.py 236-567).  The doc     *)
(* items keep id, title and track; hasCode tells whether the item has a    *)
(* code sample.                                                            *)
(***************************************************************************)
WEBDEV_QUESTIONS_FULL ==
  <<
    [id |-> "w1", correctIndex |-> 1,
     question |-> "What does HTML stand for?",
     options |-> << "Hyper Trainer Marking Language",
                    "Hyper Text Markup Language",
                    "Hyper Text Marketing Language",
                    "Hyperlinks Text Marking Language" >>],
    [id |-> "w2", correctIndex |-> 1,
     question |-> "Which HTML tag is used to include JavaScript code?",
     options |-> << "<javascript>",
                    "<script>",
                    "<js>",
                    "<code>" >>],
    [id |-> "w3", correctIndex |-> 2,
     question |-> "Which CSS property controls text size?",
     options |-> << "font-style",
                    "text-size",
                    "font-size",
                    "text-style" >>],
    [id |-> "w4", correctIndex |-> 1,
     question |-> "Which HTTP method is typically used to submit form data?",
     options |-> << "GET",
                    "POST",
                    "PUT",
                    "DELETE" >>],
    [id |-> "w5", correctIndex |-> 2,
     question |-> "Which HTML element is used for the largest heading?",
     options |-> << "<head>",
                    "<h6>",
                    "<h1>",
                    "<title>" >>],
    [id |-> "w6", correctIndex |-> 1,
     question |-> "Which CSS layout module is best for creating one-dimensional layouts (rows or columns)?",
     options |-> << "Grid",
                    "Flexbox",
                    "Float",
                    "Positioning" >>],
    [id |-> "w7", correctIndex |-> 1,
     question |-> "In JavaScript, which keyword declares a block-scoped variable that can change?",
     options |-> << "var",
                    "let",
                    "const",
                    "static" >>],
    [id |-> "w8", correctIndex |-> 1,
     question |-> "What does CSS stand for?",
     options |-> << "Computer Style Sheets",
                    "Cascading Style Sheets",
                    "Creative Style System",
                    "Colorful Style Syntax" >>],
    [id |-> "w9", correctIndex |-> 2,
     question |-> "Which of these is a valid HTTP status code for 'Not Found'?",
     options |-> << "200",
                    "301",
                    "404",
                    "500" >>],
    [id |-> "w10", correctIndex |-> 0,
     question |-> "Which tag creates a hyperlink in HTML?",
     options |-> << "<a>",
                    "<link>",
                    "<href>",
                    "<url>" >>]
  >>

ML_QUESTIONS_FULL ==
  <<
    [id |-> "m1", correctIndex |-> 1,
     question |-> "What is Machine Learning?",
     options |-> << "Programming computers with explicit rules only",
                    "A field where computers learn patterns from data",
                    "Designing computer hardware",
                    "Building websites with HTML and CSS" >>],
    [id |-> "m2", correctIndex |-> 1,
     question |-> "Which of the following is a supervised learning task?",
     options |-> << "Clustering customers by behavior",
                    "Classifying emails as spam or not spam",
                    "Finding topics in documents without labels",
                    "Dimensionality reduction" >>],
    [id |-> "m3", correctIndex |-> 1,
     question |-> "In linear regression, what do we typically minimize during training?",
     options |-> << "Number of parameters",
                    "Sum of squared errors between predictions and targets",
                    "Number of data points",
                    "Model accuracy" >>],
    [id |-> "m4", correctIndex |-> 2,
     question |-> "Which of these is an example of a classification algorithm?",
     options |-> << "K-Means",
                    "Principal Component Analysis",
                    "Logistic Regression",
                    "K-Nearest Neighbors Regressor" >>],
    [id |-> "m5", correctIndex |-> 1,
     question |-> "What does 'overfitting' mean in ML?",
     options |-> << "Model is too simple and underperforms on both train and test",
                    "Model performs well on train data but poorly on unseen test data",
                    "Model has too few parameters",
                    "Model cannot be trained at all" >>],
    [id |-> "m6", correctIndex |-> 0,
     question |-> "Which of these is commonly used for dimensionality reduction?",
     options |-> << "PCA",
                    "SVM",
                    "Random Forest",
                    "Naive Bayes" >>],
    [id |-> "m7", correctIndex |-> 1,
     question |-> "What is a 'feature' in a dataset?",
     options |-> << "A row in the dataset",
                    "A column representing an input variable",
                    "The final prediction",
                    "The loss function" >>],
    [id |-> "m8", correctIndex |-> 3,
     question |-> "Which library is widely used for building neural networks in Python?",
     options |-> << "NumPy",
                    "Pandas",
                    "Matplotlib",
                    "PyTorch" >>],
    [id |-> "m9", correctIndex |-> 2,
     question |-> "What is 'training data'?",
     options |-> << "Data used to evaluate model performance",
                    "Data used to tune hyperparameters",
                    "Data used to learn model parameters",
                    "Random noise added to inputs" >>],
    [id |-> "m10", correctIndex |-> 1,
     question |-> "In classification, which metric measures the proportion of correct predictions?",
     options |-> << "Loss",
                    "Accuracy",
                    "Learning rate",
                    "Epoch" >>]
  >>

COURSES ==
  <<
    [id |-> "c-w-b-1", title |-> "HTML & CSS Crash Course",
     platform |-> "YouTube",
     url |-> "https://www.youtube.com/results?search_query=html+css+crash+course",
     track |-> "webdev", difficulty |-> "Beginner"],
    [id |-> "c-w-b-2", title |-> "Web Development for Beginners",
     platform |-> "freeCodeCamp",
     url |-> "https://www.freecodecamp.org/learn/",
     track |-> "webdev", difficulty |-> "Beginner"],
    [id |-> "c-w-i-1", title |-> "Modern JavaScript Tutorial",
     platform |-> "MDN / Docs",
     url |-> "https://developer.mozilla.org/en-US/docs/Web/JavaScript/Guide",
     track |-> "webdev", difficulty |-> "Intermediate"],
    [id |-> "c-w-i-2", title |-> "React for Beginners",
     platform |-> "Scrimba / YouTube",
     url |-> "https://www.youtube.com/results?search_query=react+js+for+beginners",
     track |-> "webdev", difficulty |-> "Intermediate"],
    [id |-> "c-w-a-1", title |-> "Full-Stack Web Development Projects",
     platform |-> "Udemy / Other",
     url |-> "https://www.udemy.com/topic/web-development/",
     track |-> "webdev", difficulty |-> "Advanced"],
    [id |-> "c-w-a-2", title |-> "Web Performance Optimization",
     platform |-> "Web.dev",
     url |-> "https://web.dev/fast/",
     track |-> "webdev", difficulty |-> "Advanced"],
    [id |-> "c-m-b-1", title |-> "Machine Learning for Beginners",
     platform |-> "YouTube",
     url |-> "https://www.youtube.com/results?search_query=machine+learning+for+beginners",
     track |-> "ml", difficulty |-> "Beginner"],
    [id |-> "c-m-b-2", title |-> "Intro to ML with Python",
     platform |-> "Kaggle / Courses",
     url |-> "https://www.kaggle.com/learn/intro-to-machine-learning",
     track |-> "ml", difficulty |-> "Beginner"],
    [id |-> "c-m-i-1", title |-> "Supervised Machine Learning",
     platform |-> "Coursera",
     url |-> "https://www.coursera.org/specializations/machine-learning-introduction",
     track |-> "ml", difficulty |-> "Intermediate"],
    [id |-> "c-m-i-2", title |-> "Hands-On ML with Scikit-Learn",
     platform |-> "Book / Online",
     url |-> "https://www.oreilly.com/library/view/hands-on-machine-learning/9781492032632/",
     track |-> "ml", difficulty |-> "Intermediate"],
    [id |-> "c-m-a-1", title |-> "Deep Learning Specialization",
     platform |-> "Coursera",
     url |-> "https://www.coursera.org/specializations/deep-learning",
     track |-> "ml", difficulty |-> "Advanced"],
    [id |-> "c-m-a-2", title |-> "Advanced ML on Google Cloud",
     platform |-> "Coursera",
     url |-> "https://www.coursera.org/specializations/advanced-machine-learning-tensorflow-gcp",
     track |-> "ml", difficulty |-> "Advanced"]
  >>

DOC_CATEGORIES ==
  <<
    [id |-> "webdev", title |-> "Web Development",
     items |-> <<
         [id |-> "html-basics", title |-> "HTML Basics", track |-> "webdev", hasCode |-> TRUE],
         [id |-> "css-basics", title |-> "CSS Basics", track |-> "webdev", hasCode |-> TRUE],
         [id |-> "js-basics", title |-> "JavaScript Basics", track |-> "webdev", hasCode |-> TRUE] >>],
    [id |-> "ml", title |-> "Machine Learning",
     items |-> <<
         [id |-> "what-is-ml", title |-> "What is Machine Learning?", track |-> "ml", hasCode |-> FALSE],
         [id |-> "types-of-ml", title |-> "Types of Machine Learning", track |-> "ml", hasCode |-> FALSE],
         [id |-> "ml-workflow", title |-> "Basic ML Workflow", track |-> "ml", hasCode |-> FALSE] >>]
  >>

Tracks == {"webdev", "ml"}

(***************************************************************************)
(* Values.  An Optional is a sequence: <<>> is None, <<v>> is v.           *)
(* An ObjectId is a positive integer; str(ObjectId) is OidStr.             *)
(* datetime.isoformat() of a UTC time is fixed-width up to the seconds and *)
(* then "+" or ".ffffff+", and "+" < ".": comparing two such strings       *)
(* compares the times, so an ISO string is a record compared by its time.  *)
(***************************************************************************)
Emails == {"a@x.com", "b@x.com"}
Passwords == {"pw1", "pw2"}

OidStr(n) == [hex24 |-> TRUE, n |-> n]
NotAnOidStr == [hex24 |-> FALSE, n |-> 0]

\* ObjectId(s) of a 24-digit hex string
ObjectId(s) == s.n

IsoFormat(t) == [iso |-> t]

\* pydantic EmailStr: the strings that validate as an e-mail address
EmailStr(s) == s \in Emails

(***************************************************************************)
(* Password Hasher (passlib bcrypt): a salted one-way digest; verify       *)
(* recomputes the digest with the salt embedded in the stored hash.        *)
(***************************************************************************)
Digest(salt, password) == <<"digest", salt, password>>

get_password_hash(password) ==
  [scheme |-> "bcrypt", salt |-> "salt", digest |-> Digest("salt", password)]

verify_password(plain_password, hashed_password) ==
  /\ hashed_password.scheme = "bcrypt"
  /\ hashed_password.digest = Digest(hashed_password.salt, plain_password)

(***************************************************************************)
(* Token Issuer/Validator (python-jose).  A token is its signing key and   *)
(* its payload; wf is FALSE for a string that is no JWT.                   *)
(***************************************************************************)
create_access_token(data, t) ==
  [wf |-> TRUE, key |-> JWT_SECRET, alg |-> JWT_ALGORITHM,
   payload |-> [sub |-> data.sub, email |-> data.email,
                exp |-> t + JWT_EXPIRES_MINUTES]]

\* jwt.decode(token, key, algorithms=[alg]): <<payload>>, or <<>> for a JWTError
\* (malformed token, signature mismatch, expired: exp < now).
JwtDecode(token, key, alg, t) ==
  IF ~token.wf THEN <<>>
  ELSE IF token.key # key \/ token.alg # alg THEN <<>>
  ELSE IF "exp" \in DOMAIN token.payload /\ token.payload.exp < t THEN <<>>
  ELSE <<token.payload>>

\* payload.get(k)
PayloadGet(payload, k) == IF k \in DOMAIN payload THEN <<payload[k]>> ELSE <<>>

(***************************************************************************)
(* Store queries.                                                          *)
(***************************************************************************)
\* find_one: the first document, in natural order, among the matching ones
FindOne(coll, hits) ==
  IF hits = {} THEN <<>>
  ELSE <<coll[CHOOSE i \in hits : \A j \in hits : i <= j]>>

\* a lookup on the wrong field
get_student_by_email_name(email) ==
  FindOne(students, {i \in 1..Len(students) : students[i].name = email})

get_student_by_email(email) ==
  FindOne(students, {i \in 1..Len(students) : students[i].email = email})

get_student_by_id(student_id) ==
  IF ~student_id.hex24 THEN <<>>
  ELSE LET oid == ObjectId(student_id)
       IN  FindOne(students, {i \in 1..Len(students) : students[i]._id = oid})

\* insert_one gives the document a fresh ObjectId
NewObjectId(coll) == Len(coll) + 1

(***************************************************************************)
(* HTTP values.                                                            *)
(***************************************************************************)
NoBody == [kind |-> "none"]
NoRequest == [method |-> "", path |-> <<>>, auth |-> <<>>, body |-> NoBody]
NoResponse == [req |-> NoRequest, status |-> 0, detail |-> "", body |-> NoBody]

Request(method, path, auth, body) ==
  [method |-> method, path |-> path, auth |-> auth, body |-> body]

HTTPException(req, status_code, detail) ==
  [req |-> req, status |-> status_code, detail |-> detail, body |-> NoBody]

Response(req, status_code, body) ==
  [req |-> req, status |-> status_code, detail |-> "", body |-> body]

(***************************************************************************)
(* get_current_student (server.py 88-110): the authentication gate of      *)
(* every protected route.  [ok |-> TRUE, student] or the error to send.    *)
(***************************************************************************)
AuthError(status_code, detail) ==
  [ok |-> FALSE, status |-> status_code, detail |-> detail]

credentials_exception == AuthError(401, "Could not validate credentials")

get_current_student(auth, t) ==
  IF auth = <<>> THEN AuthError(401, "Not authenticated")
  ELSE
    LET decoded == JwtDecode(auth[1], JWT_SECRET, JWT_ALGORITHM, t) IN
    IF decoded = <<>> THEN credentials_exception
    ELSE
      LET subject == PayloadGet(decoded[1], "sub")
          email == PayloadGet(decoded[1], "email")
      IN
      IF subject = <<>> \/ email = <<>> THEN credentials_exception
      ELSE IF ~EmailStr(email[1]) THEN AuthError(500, "Internal Server Error")
      ELSE
        LET student == get_student_by_id(subject[1]) IN
        IF student = <<>> THEN credentials_exception
        ELSE [ok |-> TRUE, student |-> student[1], id |-> OidStr(student[1]._id)]

(***************************************************************************)
(* Routes, in declaration order (server.py 600-782, prefix /api).  A path  *)
(* is its segments; a pattern segment is a literal or a path parameter.    *)
(***************************************************************************)
Lit(s) == [param |-> FALSE, name |-> s]
Param(s) == [param |-> TRUE, name |-> s]

ROUTES ==
  << [method |-> "GET",  pattern |-> <<>>,                              endpoint |-> "root"],
     [method |-> "POST", pattern |-> <<Lit("status")>>,                 endpoint |-> "create_status_check"],
     [method |-> "GET",  pattern |-> <<Lit("status")>>,                 endpoint |-> "get_status_checks"],
     [method |-> "POST", pattern |-> <<Lit("auth"), Lit("register")>>,  endpoint |-> "register_student"],
     [method |-> "POST", pattern |-> <<Lit("auth"), Lit("login")>>,     endpoint |-> "login_student"],
     [method |-> "GET",  pattern |-> <<Lit("tests"), Param("track")>>,  endpoint |-> "get_test_questions"],
     [method |-> "POST", pattern |-> <<Lit("tests"), Param("track")>>,  endpoint |-> "submit_test"],
     [method |-> "GET",  pattern |-> <<Lit("tests"), Lit("levels")>>,   endpoint |-> "get_levels"],
     [method |-> "GET",  pattern |-> <<Lit("recommendations")>>,        endpoint |-> "get_recommendations"],
     [method |-> "GET",  pattern |-> <<Lit("docs")>>,                   endpoint |-> "get_docs"],
     [method |-> "POST", pattern |-> <<Lit("chat")>>,                   endpoint |-> "chat_endpoint"] >>

\* a route matches a request when the method is its own and every segment
\* equals the literal or fills the parameter
RouteMatches(route, method, path) ==
  /\ route.method = method
  /\ Len(route.pattern) = Len(path)
  /\ \A i \in 1..Len(path) :
       route.pattern[i].param \/ route.pattern[i].name = path[i]

\* the router serves a request by the first declared route that matches
Dispatch(method, path) ==
  LET hits == {i \in 1..Len(ROUTES) : RouteMatches(ROUTES[i], method, path)} IN
  IF hits = {} THEN "not_found"
  ELSE ROUTES[CHOOSE i \in hits : \A j \in hits : i <= j].endpoint

\* the value of the path parameter {track} of /tests/{track}
PathTrack(path) == path[2]

(***************************************************************************)
(* Utility functions (server.py 575-592).  A float percentage is c/100     *)
(* plus a rounding residue of sign r far below 1/100: (score/total)*100 in *)
(* IEEE-754 doubles is exact for total = 10 and score in 0..39 except for  *)
(* 11 and 22 (above the quotient) and 23 (below it).                       *)
(***************************************************************************)
Float(c, r) == [c |-> c, r |-> r]

FloatLeqInt(x, k) == x.c < 100 * k \/ (x.c = 100 * k /\ x.r <= 0)

FloatLess(x, y) == x.c < y.c \/ (x.c = y.c /\ x.r < y.r)

\* (score / total) * 100
FloatPercentage(score, total) ==
  Float((score * 10000) \div total,
        IF total = 10 /\ score \in {11, 22} THEN 1
        ELSE IF total = 10 /\ score = 23 THEN -1 ELSE 0)

\* round(x, 2)
Round2(x) == Float(x.c, 0)

\* the thresholds taken as exclusive: < in place of <=
map_percentage_to_level_strict(percentage) ==
  IF FloatLess(percentage, Float(4000, 0)) THEN "Beginner"
  ELSE IF FloatLess(percentage, Float(7500, 0)) THEN "Intermediate"
  ELSE "Advanced"

map_percentage_to_level(percentage) ==
  IF FloatLeqInt(percentage, 40) THEN "Beginner"
  ELSE IF FloatLeqInt(percentage, 75) THEN "Intermediate"
  ELSE "Advanced"

\* the cursor sorted the wrong way: earliest first
SortedAsc(student_id) ==
  LET idx == {i \in 1..Len(test_results) : test_results[i].student_id = student_id}
      n == Cardinality(idx)
  IN  {s \in [1..n -> idx] :
         /\ \A i, j \in 1..n : i # j => s[i] # s[j]
         /\ \A i, j \in 1..n :
              i < j => test_results[s[i]].submitted_at.iso
                         <= test_results[s[j]].submitted_at.iso}

\* the cursor of a find without the student_id filter
SortedDescAll(student_id) ==
  LET idx == 1..Len(test_results)
      n == Cardinality(idx)
  IN  {s \in [1..n -> idx] :
         /\ \A i, j \in 1..n : i # j => s[i] # s[j]
         /\ \A i, j \in 1..n :
              i < j => test_results[s[j]].submitted_at.iso
                         <= test_results[s[i]].submitted_at.iso}

\* the cursor of find({"student_id": id}).sort("submitted_at", -1): the rows of
\* the student, latest first; rows with equal submitted_at come in any order
SortedDesc(student_id) ==
  LET idx == {i \in 1..Len(test_results) : test_results[i].student_id = student_id}
      n == Cardinality(idx)
  IN  {s \in [1..n -> idx] :
         /\ \A i, j \in 1..n : i # j => s[i] # s[j]
         /\ \A i, j \in 1..n :
              i < j => test_results[s[j]].submitted_at.iso
                         <= test_results[s[i]].submitted_at.iso}

TrackLevel(level, percentage) == [level |-> level, percentage |-> percentage]

RECURSIVE LevelsLoop(_, _, _)
\* the loop of get_latest_levels_for_student: the first row of a track wins
LevelsLoop(cursor, i, levels) ==
  IF i > Len(cursor) THEN levels
  ELSE LET doc == test_results[cursor[i]] IN
       IF doc.track \in DOMAIN levels THEN LevelsLoop(cursor, i + 1, levels)
       ELSE LevelsLoop(cursor, i + 1,
              [t \in DOMAIN levels \cup {doc.track} |->
                 IF t = doc.track THEN TrackLevel(doc.level, doc.percentage)
                 ELSE levels[t]])

\* levels.get(track)
LevelsGet(levels, track) ==
  IF track \in DOMAIN levels THEN <<levels[track]>> ELSE <<>>

LevelsResponse(levels) ==
  [webdev |-> LevelsGet(levels, "webdev"), ml |-> LevelsGet(levels, "ml")]

\* every LevelsResponse the function may return in the current store
get_latest_levels_for_student(student_id) ==
  {LevelsResponse(LevelsLoop(cursor, 1, <<>>)) : cursor \in SortedDesc(student_id)}

(***************************************************************************)
(* Scoring (submit_test, server.py 696-710).                               *)
(***************************************************************************)
QuestionsOf(track) ==
  IF track = "webdev" THEN WEBDEV_QUESTIONS_FULL ELSE ML_QUESTIONS_FULL

\* {q["id"]: q for q in questions_full}: a later question replaces an
\* earlier one of the same id
QuestionMap(questions_full) ==
  LET ids == {questions_full[i].id : i \in 1..Len(questions_full)} IN
  [id \in ids |->
     questions_full[CHOOSE i \in 1..Len(questions_full) :
        /\ questions_full[i].id = id
        /\ \A j \in 1..Len(questions_full) :
             questions_full[j].id = id => j <= i]]

RECURSIVE ScoreLoopBreak(_, _, _, _)
\* the loop leaving at the first unknown id instead of skipping it
ScoreLoopBreak(question_map, answers, i, score) ==
  IF i > Len(answers) THEN score
  ELSE IF answers[i].questionId \notin DOMAIN question_map THEN score
  ELSE IF answers[i].optionIndex = question_map[answers[i].questionId].correctIndex
       THEN ScoreLoopBreak(question_map, answers, i + 1, score + 1)
  ELSE ScoreLoopBreak(question_map, answers, i + 1, score)

RECURSIVE ScoreLoopPenalty(_, _, _, _)
\* the loop taking a point off for a wrong option
ScoreLoopPenalty(question_map, answers, i, score) ==
  IF i > Len(answers) THEN score
  ELSE IF answers[i].questionId \notin DOMAIN question_map
       THEN ScoreLoopPenalty(question_map, answers, i + 1, score)
  ELSE IF answers[i].optionIndex = question_map[answers[i].questionId].correctIndex
       THEN ScoreLoopPenalty(question_map, answers, i + 1, score + 1)
  ELSE ScoreLoopPenalty(question_map, answers, i + 1,
                        IF score > 0 THEN score - 1 ELSE 0)

RECURSIVE ScoreLoop(_, _, _, _)
\* for ans in payload.answers: skip an unknown id, count a correct option
ScoreLoop(question_map, answers, i, score) ==
  IF i > Len(answers) THEN score
  ELSE IF answers[i].questionId \notin DOMAIN question_map
       THEN ScoreLoop(question_map, answers, i + 1, score)
  ELSE IF answers[i].optionIndex = question_map[answers[i].questionId].correctIndex
       THEN ScoreLoop(question_map, answers, i + 1, score + 1)
  ELSE ScoreLoop(question_map, answers, i + 1, score)

\* score, total, percentage and level of a submission to a known track
Grade(track, answers) ==
  LET questions_full == QuestionsOf(track)
      score == ScoreLoop(QuestionMap(questions_full), answers, 1, 0)
      total == Len(questions_full)
      percentage == IF total > 0 THEN FloatPercentage(score, total) ELSE Float(0, 0)
  IN  [score |-> score, total |-> total, percentage |-> percentage,
       level |-> map_percentage_to_level(percentage)]

LevelMessage(level) ==
  IF level = "Beginner"
  THEN "You are at Beginner level. Focus on the basics and build strong foundations."
  ELSE IF level = "Intermediate"
  THEN "Nice work! You are at Intermediate level. Keep practicing and build projects."
  ELSE "Great job! You are at Advanced level. Explore deeper topics and real-world applications."

(***************************************************************************)
(* Read-only endpoints: the responses the handler may send to request r.   *)
(***************************************************************************)
\* the question passed on whole, with its correctIndex
QuestionFull(q) == q

QuestionPublic(q) == [id |-> q.id, question |-> q.question, options |-> q.options]

root(r) == {Response(r, 200, [kind |-> "message", message |-> "Student Skill Assistant API"])}

get_test_questions(r, track) ==
  LET current == get_current_student(r.auth, now) IN
  IF ~current.ok THEN {HTTPException(r, current.status, current.detail)}
  ELSE IF track \notin {"webdev", "ml"} THEN {HTTPException(r, 404, "Unknown track")}
  ELSE LET questions_full == QuestionsOf(track) IN
       {Response(r, 200,
          [kind |-> "questions", track |-> track,
           questions |-> [i \in 1..Len(questions_full) |->
                            QuestionPublic(questions_full[i])]])}

get_levels(r) ==
  LET current == get_current_student(r.auth, now) IN
  IF ~current.ok THEN {HTTPException(r, current.status, current.detail)}
  ELSE {Response(r, 200, [kind |-> "levels", levels |-> lv]) :
          lv \in get_latest_levels_for_student(ObjectId(current.id))}

\* the filter forgetting the track
filter_courses_any_track(track, level) ==
  LET target_difficulty ==
        IF level # <<>> /\ level[1].level # "" THEN level[1].level ELSE "Beginner"
      Keep(course) == course.difficulty = target_difficulty
  IN  SelectSeq(COURSES, Keep)

\* filter_courses: the catalog courses of the track at the target difficulty
filter_courses(track, level) ==
  LET target_difficulty ==
        IF level # <<>> /\ level[1].level # "" THEN level[1].level ELSE "Beginner"
      Keep(course) == course.track = track /\ course.difficulty = target_difficulty
  IN  SelectSeq(COURSES, Keep)

get_recommendations(r) ==
  LET current == get_current_student(r.auth, now) IN
  IF ~current.ok THEN {HTTPException(r, current.status, current.detail)}
  ELSE {Response(r, 200,
          [kind |-> "recommendations",
           webdev |-> filter_courses("webdev", lv.webdev),
           ml |-> filter_courses("ml", lv.ml)]) :
          lv \in get_latest_levels_for_student(ObjectId(current.id))}

get_docs(r) ==
  LET current == get_current_student(r.auth, now) IN
  IF ~current.ok THEN {HTTPException(r, current.status, current.detail)}
  ELSE {Response(r, 200, [kind |-> "docs", categories |-> DOC_CATEGORIES])}

(***************************************************************************)
(* Chatbot stub (server.py 782-799).  A str is the sequence of its         *)
(* characters; lower() maps each capital letter to its small letter; the   *)
(* test "pattern in text" is substring containment.                        *)
(***************************************************************************)
UpperLetters ==
  <<"A", "B", "C", "D", "E", "F", "G", "H", "I", "J", "K", "L", "M", "N", "O", "P", "Q", "R", "S", "T", "U", "V", "W", "X", "Y", "Z">>

LowerLetters ==
  <<"a", "b", "c", "d", "e", "f", "g", "h", "i", "j", "k", "l", "m", "n", "o", "p", "q", "r", "s", "t", "u", "v", "w", "x", "y", "z">>

LowerChar(c) ==
  IF \E i \in 1..Len(UpperLetters) : UpperLetters[i] = c
  THEN LowerLetters[CHOOSE i \in 1..Len(UpperLetters) : UpperLetters[i] = c]
  ELSE c

\* message.lower()
StrLower(s) == [i \in 1..Len(s) |-> LowerChar(s[i])]

\* pattern in text
StrIn(pattern, text) ==
  \E k \in 0..(Len(text) - Len(pattern)) :
    SubSeq(text, k + 1, k + Len(pattern)) = pattern

KwHtml == <<"h", "t", "m", "l">>
KwCss == <<"c", "s", "s">>
KwJavascript == <<"j", "a", "v", "a", "s", "c", "r", "i", "p", "t">>
KwJs == <<"j", "s">>
KwMachineLearning == <<"m", "a", "c", "h", "i", "n", "e", " ", "l", "e", "a", "r", "n", "i", "n", "g">>
KwMl == <<"m", "l">>
KwWeb == <<"w", "e", "b">>
KwDevelopment == <<"d", "e", "v", "e", "l", "o", "p", "m", "e", "n", "t">>

ReplyHtml == "HTML (HyperText Markup Language) defines the structure of web pages using elements like headings, paragraphs, links, and more. Start by learning the basic tags such as <h1>, <p>, <a>, and <div>."
ReplyCss == "CSS (Cascading Style Sheets) is used to style HTML. Focus on selectors, the box model, flexbox, and grid to build responsive layouts."
ReplyJs == "JavaScript makes your web pages interactive. Begin with variables, functions, arrays, objects, and DOM manipulation."
ReplyMl == "Machine Learning is about learning patterns from data. Start with supervised learning (like regression and classification) before moving to deep learning."
ReplyWebDev == "For web development, master HTML, CSS, and JavaScript first, then explore a framework like React. Build small projects like a todo app or portfolio site."
ReplyFallback == "I am a simple assistant. In the future, I will be powered by a real ML model, but for now I can give short tips about HTML, CSS, JavaScript, and Machine Learning."

\* the rules taken in another order: css before html
ChatReplyCssFirst(message) ==
  LET text == StrLower(message) IN
  IF StrIn(KwCss, text) THEN ReplyCss
  ELSE IF StrIn(KwHtml, text) THEN ReplyHtml
  ELSE IF StrIn(KwJavascript, text) \/ StrIn(KwJs, text) THEN ReplyJs
  ELSE IF StrIn(KwMachineLearning, text) \/ StrIn(KwMl, text) THEN ReplyMl
  ELSE IF StrIn(KwWeb, text) /\ StrIn(KwDevelopment, text) THEN ReplyWebDev
  ELSE ReplyFallback

\* the if/elif chain of chat_endpoint
ChatReply(message) ==
  LET text == StrLower(message) IN
  IF StrIn(KwHtml, text) THEN ReplyHtml
  ELSE IF StrIn(KwCss, text) THEN ReplyCss
  ELSE IF StrIn(KwJavascript, text) \/ StrIn(KwJs, text) THEN ReplyJs
  ELSE IF StrIn(KwMachineLearning, text) \/ StrIn(KwMl, text) THEN ReplyMl
  ELSE IF StrIn(KwWeb, text) /\ StrIn(KwDevelopment, text) THEN ReplyWebDev
  ELSE ReplyFallback

chat_endpoint(r) ==
  LET current == get_current_student(r.auth, now) IN
  IF ~current.ok THEN {HTTPException(r, current.status, current.detail)}
  ELSE {Response(r, 200, [kind |-> "chat", reply |-> ChatReply(r.body.message)])}

\* the responses of the endpoint the router picks for a read-only request
Serve(r) ==
  LET endpoint == Dispatch(r.method, r.path) IN
  CASE endpoint = "root" -> root(r)
    [] endpoint = "get_test_questions" -> get_test_questions(r, PathTrack(r.path))
    [] endpoint = "get_levels" -> get_levels(r)
    [] endpoint = "get_recommendations" -> get_recommendations(r)
    [] endpoint = "get_docs" -> get_docs(r)
    [] endpoint = "chat_endpoint" -> chat_endpoint(r)
    [] OTHER -> {HTTPException(r, 404, "Not Found")}

(***************************************************************************)
(* Request tasks.  A handler runs atomically up to an await on a store     *)
(* write; task[p] keeps the locals of the handler across that await.       *)
(***************************************************************************)
Idle == [pc |-> "idle"]

Awaiting(pc) == {p \in Procs : task[p].pc = pc}

AllIdle == \A p \in Procs : task[p] = Idle

OthersIdle(p) == \A q \in Procs \ {p} : task[q] = Idle

(***************************************************************************)
(* Auth endpoints (server.py 627-668).                                     *)
(***************************************************************************)
StudentPublic(id, d) ==
  [kind |-> "student", id |-> id, name |-> d.name, email |-> d.email,
   branch |-> d.branch, semester |-> d.semester]

\* POST /auth/register, up to the await of insert_one
PostAuthRegister(p, payload) ==
  LET r == Request("POST", <<"auth", "register">>, <<>>, payload)
      existing == get_student_by_email(payload.email)
  IN
  /\ task[p] = Idle
  /\ Dispatch(r.method, r.path) = "register_student"
  /\ IF existing # <<>>
     THEN /\ resp' = HTTPException(r, 400, "Email already registered")
          /\ UNCHANGED task
     ELSE /\ Len(students) + Cardinality(Awaiting("register_insert")) < MaxStudents
          /\ task' = [task EXCEPT ![p] =
               [pc |-> "register_insert", req |-> r,
                doc |-> [name |-> payload.name,
                         email |-> payload.email,
                         password_hash |-> get_password_hash(payload.password),
                         branch |-> payload.branch,
                         semester |-> payload.semester,
                         created_at |-> IsoFormat(now)]]]
          /\ UNCHANGED resp
  /\ UNCHANGED <<students, test_results, now, probe>>

\* insert_one(doc) completes and the 201 response is sent
RegisterInsert(p) ==
  /\ task[p].pc = "register_insert"
  /\ LET inserted_id == NewObjectId(students)
         doc == task[p].doc
     IN  /\ students' = Append(students,
               [_id |-> inserted_id, name |-> doc.name, email |-> doc.email,
                password_hash |-> doc.password_hash, branch |-> doc.branch,
                semester |-> doc.semester, created_at |-> doc.created_at])
         /\ resp' = Response(task[p].req, 201, StudentPublic(OidStr(inserted_id), doc))
  /\ task' = [task EXCEPT ![p] = Idle]
  /\ UNCHANGED <<test_results, now, probe>>

\* a login telling an unknown email from a wrong password
PostAuthLoginLeaky(payload) ==
  LET r == Request("POST", <<"auth", "login">>, <<>>, payload)
      student == get_student_by_email(payload.email)
  IN
  /\ Dispatch(r.method, r.path) = "login_student"
  /\ IF student = <<>>
     THEN resp' = HTTPException(r, 404, "Email not registered")
     ELSE IF ~verify_password(payload.password, student[1].password_hash)
     THEN resp' = HTTPException(r, 400, "Incorrect email or password")
     ELSE LET student_id == OidStr(student[1]._id)
              access_token == create_access_token(
                  [sub |-> student_id, email |-> student[1].email], now)
          IN  resp' = Response(r, 200,
                [kind |-> "token", access_token |-> access_token,
                 token_type |-> "bearer",
                 student |-> StudentPublic(student_id, student[1])])
  /\ UNCHANGED <<students, test_results, now, task, probe>>

\* POST /auth/login
PostAuthLogin(payload) ==
  LET r == Request("POST", <<"auth", "login">>, <<>>, payload)
      student == get_student_by_email(payload.email)
  IN
  /\ Dispatch(r.method, r.path) = "login_student"
  /\ IF student = <<>> \/ ~verify_password(payload.password, student[1].password_hash)
     THEN resp' = HTTPException(r, 400, "Incorrect email or password")
     ELSE LET student_id == OidStr(student[1]._id)
              access_token == create_access_token(
                  [sub |-> student_id, email |-> student[1].email], now)
          IN  resp' = Response(r, 200,
                [kind |-> "token", access_token |-> access_token,
                 token_type |-> "bearer",
                 student |-> StudentPublic(student_id, student[1])])
  /\ UNCHANGED <<students, test_results, now, task, probe>>

(***************************************************************************)
(* Tests endpoints (server.py 674-744).                                    *)
(***************************************************************************)
\* submit_test without its track check: an unknown track is graded as ml
PostTestsDefault(p, auth, seg, answers) ==
  LET r == Request("POST", <<"tests", seg>>, auth, [kind |-> "answers", answers |-> answers])
      track == PathTrack(r.path)
      current_student == get_current_student(auth, now)
  IN
  /\ task[p] = Idle
  /\ Dispatch(r.method, r.path) = "submit_test"
  /\ IF ~current_student.ok
     THEN /\ resp' = HTTPException(r, current_student.status, current_student.detail)
          /\ UNCHANGED task
     ELSE /\ Len(test_results) + Cardinality(Awaiting("submit_insert")) < MaxResults
          /\ LET g == Grade(track, answers) IN
             task' = [task EXCEPT ![p] =
               [pc |-> "submit_insert", req |-> r,
                doc |-> [student_id |-> ObjectId(current_student.id),
                         track |-> track,
                         score |-> g.score,
                         total |-> g.total,
                         percentage |-> g.percentage,
                         level |-> g.level,
                         submitted_at |-> IsoFormat(now)]]]
          /\ UNCHANGED resp
  /\ UNCHANGED <<students, test_results, now, probe>>

\* POST /tests/{seg}, up to the await of insert_one
PostTests(p, auth, seg, answers) ==
  LET r == Request("POST", <<"tests", seg>>, auth, [kind |-> "answers", answers |-> answers])
      track == PathTrack(r.path)
      current_student == get_current_student(auth, now)
  IN
  /\ task[p] = Idle
  /\ Dispatch(r.method, r.path) = "submit_test"
  /\ IF ~current_student.ok
     THEN /\ resp' = HTTPException(r, current_student.status, current_student.detail)
          /\ UNCHANGED task
     ELSE IF track \notin {"webdev", "ml"}
     THEN /\ resp' = HTTPException(r, 404, "Unknown track")
          /\ UNCHANGED task
     ELSE /\ Len(test_results) + Cardinality(Awaiting("submit_insert")) < MaxResults
          /\ LET g == Grade(track, answers) IN
             task' = [task EXCEPT ![p] =
               [pc |-> "submit_insert", req |-> r,
                doc |-> [student_id |-> ObjectId(current_student.id),
                         track |-> track,
                         score |-> g.score,
                         total |-> g.total,
                         percentage |-> g.percentage,
                         level |-> g.level,
                         submitted_at |-> IsoFormat(now)]]]
          /\ UNCHANGED resp
  /\ UNCHANGED <<students, test_results, now, probe>>

\* the insert done as an upsert on (student_id, track)
SubmitUpsert(p) ==
  /\ task[p].pc = "submit_insert"
  /\ LET doc == task[p].doc
         old == {i \in 1..Len(test_results) :
                   /\ test_results[i].student_id = doc.student_id
                   /\ test_results[i].track = doc.track}
         row(id) == [_id |-> id, student_id |-> doc.student_id,
                     track |-> doc.track, score |-> doc.score, total |-> doc.total,
                     percentage |-> doc.percentage, level |-> doc.level,
                     submitted_at |-> doc.submitted_at]
     IN
     /\ test_results' =
          IF old = {} THEN Append(test_results, row(NewObjectId(test_results)))
          ELSE [i \in 1..Len(test_results) |->
                  IF i \in old THEN row(test_results[i]._id) ELSE test_results[i]]
     /\ resp' = Response(task[p].req, 200,
          [kind |-> "result", track |-> doc.track, score |-> doc.score,
           total |-> doc.total, percentage |-> Round2(doc.percentage),
           level |-> doc.level, message |-> LevelMessage(doc.level)])
  /\ task' = [task EXCEPT ![p] = Idle]
  /\ UNCHANGED <<students, now, probe>>

\* insert_one(doc) completes and the TestResultResponse is sent
SubmitInsert(p) ==
  /\ task[p].pc = "submit_insert"
  /\ LET doc == task[p].doc IN
     /\ test_results' = Append(test_results,
          [_id |-> NewObjectId(test_results), student_id |-> doc.student_id,
           track |-> doc.track, score |-> doc.score, total |-> doc.total,
           percentage |-> doc.percentage, level |-> doc.level,
           submitted_at |-> doc.submitted_at])
     /\ resp' = Response(task[p].req, 200,
          [kind |-> "result", track |-> doc.track, score |-> doc.score,
           total |-> doc.total, percentage |-> Round2(doc.percentage),
           level |-> doc.level, message |-> LevelMessage(doc.level)])
  /\ task' = [task EXCEPT ![p] = Idle]
  /\ UNCHANGED <<students, now, probe>>

\* a request that writes nothing: GET /, /tests/{seg}, /recommendations,
\* /docs and POST /chat
ReadOnly(r) ==
  /\ resp' \in Serve(r)
  /\ UNCHANGED <<students, test_results, now, task, probe>>

GetRoot == ReadOnly(Request("GET", <<>>, <<>>, NoBody))

GetTests(auth, seg) == ReadOnly(Request("GET", <<"tests", seg>>, auth, NoBody))

GetRecommendations(auth) == ReadOnly(Request("GET", <<"recommendations">>, auth, NoBody))

GetDocs(auth) == ReadOnly(Request("GET", <<"docs">>, auth, NoBody))

PostChat(auth, message) ==
  ReadOnly(Request("POST", <<"chat">>, auth, [kind |-> "chat", message |-> message]))

\* time passes, up to the limit
TickTo(limit) ==
  /\ now + TickMinutes <= limit
  /\ now' = now + TickMinutes
  /\ UNCHANGED <<students, test_results, task, resp, probe>>

Tick == TickTo(MaxTime)

(***************************************************************************)
(* Inputs.                                                                 *)
(***************************************************************************)
RegisterPayloads ==
  {[kind |-> "register", name |-> "A", email |-> e, password |-> pw,
    branch |-> "CSE", semester |-> "5"] : e \in Emails, pw \in {"pw1"}}

LoginPayloads ==
  {[kind |-> "login", email |-> e, password |-> pw] : e \in Emails, pw \in Passwords}

\* the token login issues at time t to the student of id i and e-mail e
IssuedToken(i, e, t) == create_access_token([sub |-> OidStr(i), email |-> e], t)

\* issued long enough before time 0 to be expired throughout
ExpiredToken == IssuedToken(1, "a@x.com", 0 - JWT_EXPIRES_MINUTES - TickMinutes)

WrongSecretToken == [IssuedToken(1, "a@x.com", 0) EXCEPT !.key = "other_secret"]

MalformedToken == [wf |-> FALSE, key |-> "", alg |-> "", payload |-> [exp |-> 0]]

NoSubToken ==
  [wf |-> TRUE, key |-> JWT_SECRET, alg |-> JWT_ALGORITHM,
   payload |-> [email |-> "a@x.com", exp |-> JWT_EXPIRES_MINUTES]]

NoEmailToken ==
  [wf |-> TRUE, key |-> JWT_SECRET, alg |-> JWT_ALGORITHM,
   payload |-> [sub |-> OidStr(1), exp |-> JWT_EXPIRES_MINUTES]]

\* sub is no ObjectId string
BadSubToken == create_access_token([sub |-> NotAnOidStr, email |-> "a@x.com"], 0)

\* email is no e-mail address
BadEmailToken == create_access_token([sub |-> OidStr(1), email |-> "not-an-email"], 0)

TokenUniverse ==
  {IssuedToken(i, "a@x.com", 0) : i \in 1..MaxStudents}
    \cup {ExpiredToken, WrongSecretToken, MalformedToken, NoSubToken,
          NoEmailToken, BadSubToken, BadEmailToken}

\* the Authorization header: absent, or Bearer <token>
AuthHeaders == {<<>>} \cup {<<tok>> : tok \in TokenUniverse}

Segments == {"webdev", "ml", "levels", "bogus"}

Answer(questionId, optionIndex) ==
  [questionId |-> questionId, optionIndex |-> optionIndex]

Repeat(a, n) == [i \in 1..n |-> a]

\* the correct answers to the first k questions of a track
CorrectFirst(track, k) ==
  [i \in 1..k |-> Answer(QuestionsOf(track)[i].id, QuestionsOf(track)[i].correctIndex)]

\* the answer lists of QuizSpec: none; half of each track right; one right
\* webdev answer repeated, then every ml question right
QuizLists ==
  { <<>>,
    CorrectFirst("webdev", 5) \o CorrectFirst("ml", 5),
    Repeat(Answer("w1", 1), MaxRepeat) \o CorrectFirst("ml", 10) }

\* chat messages: every rule alone, in capitals, several rules at once, a
\* pattern inside another word, and none
ChatMessages ==
  { <<>>,
    <<"H", "T", "M", "L">>,
    <<"c", "s", "s">>,
    <<"L", "e", "a", "r", "n", " ", "J", "S">>,
    <<"J", "a", "v", "a", "S", "c", "r", "i", "p", "t">>,
    <<"x", "m", "l">>,
    <<"M", "L">>,
    <<"h", "t", "m", "l", " ", "c", "s", "s">>,
    <<"C", "S", "S", " ", "a", "n", "d", " ", "j", "s">>,
    <<"j", "s", " ", "m", "l">>,
    <<"m", "a", "c", "h", "i", "n", "e", " ", "l", "e", "a", "r", "n", "i", "n", "g">>,
    <<"w", "e", "b", " ", "d", "e", "v", "e", "l", "o", "p", "m", "e", "n", "t">>,
    <<"d", "e", "v", "e", "l", "o", "p", "m", "e", "n", "t", " ", "w", "e", "b", " ", "m", "l">>,
    <<"w", "e", "b">>,
    <<"h", "e", "l", "l", "o">>,
    <<"H", "t", "M", "l", " ", "W", "e", "b", " ", "D", "e", "v", "e", "l", "o", "p", "m", "e", "n", "t">> }

(***************************************************************************)
(* Specifications.                                                         *)
(***************************************************************************)
NoProbe == [fn |-> "none"]

Init ==
  /\ students = <<>>
  /\ test_results = <<>>
  /\ now = 0
  /\ task = [p \in Procs |-> Idle]
  /\ resp = NoResponse
  /\ probe = NoProbe

Next ==
  \/ \E p \in Procs, payload \in RegisterPayloads : PostAuthRegister(p, payload)
  \/ \E p \in Procs : RegisterInsert(p)
  \/ \E payload \in LoginPayloads : PostAuthLogin(payload)
  \/ \E p \in Procs, auth \in AuthHeaders, seg \in Segments, answers \in QuizLists :
       PostTests(p, auth, seg, answers)
  \/ \E p \in Procs : SubmitInsert(p)
  \/ GetRoot
  \/ \E auth \in AuthHeaders, seg \in Segments : GetTests(auth, seg)
  \/ \E auth \in AuthHeaders : GetRecommendations(auth)
  \/ \E auth \in AuthHeaders : GetDocs(auth)
  \/ \E auth \in AuthHeaders, message \in ChatMessages : PostChat(auth, message)
  \/ Tick

Spec == Init /\ [][Next]_vars

\* registration, login and the protected read-only routes
AuthNext ==
  \/ \E p \in Procs, payload \in RegisterPayloads : PostAuthRegister(p, payload)
  \/ \E p \in Procs : RegisterInsert(p)
  \/ \E payload \in LoginPayloads : PostAuthLogin(payload)
  \/ GetRoot
  \/ \E auth \in AuthHeaders, seg \in Segments : GetTests(auth, seg)
  \/ \E auth \in AuthHeaders : GetRecommendations(auth)
  \/ \E auth \in AuthHeaders : GetDocs(auth)
  \/ Tick

AuthSpec == Init /\ [][AuthNext]_vars

\* the same, with the requests handled one after another
SeqNext ==
  \/ \E p \in Procs, payload \in RegisterPayloads :
       OthersIdle(p) /\ PostAuthRegister(p, payload)
  \/ \E p \in Procs : RegisterInsert(p)
  \/ \E payload \in LoginPayloads : AllIdle /\ PostAuthLogin(payload)
  \/ \E auth \in AuthHeaders, seg \in Segments : AllIdle /\ GetTests(auth, seg)
  \/ Tick

SeqSpec == Init /\ [][SeqNext]_vars

\* the quiz engine, from the store holding two registered students
QuizStudents ==
  << [_id |-> 1, name |-> "A", email |-> "a@x.com",
      password_hash |-> get_password_hash("pw1"), branch |-> "CSE",
      semester |-> "5", created_at |-> IsoFormat(0)],
     [_id |-> 2, name |-> "A", email |-> "b@x.com",
      password_hash |-> get_password_hash("pw1"), branch |-> "CSE",
      semester |-> "5", created_at |-> IsoFormat(0)] >>

QuizAuthHeaders ==
  {<<>>, <<IssuedToken(1, "a@x.com", 0)>>, <<IssuedToken(2, "b@x.com", 0)>>}

QuizSegments == {"webdev", "ml", "bogus"}

QuizInit ==
  /\ students = QuizStudents
  /\ test_results = <<>>
  /\ now = 0
  /\ task = [p \in Procs |-> Idle]
  /\ resp = NoResponse
  /\ probe = NoProbe

QuizNext ==
  \/ \E p \in Procs, auth \in QuizAuthHeaders, seg \in QuizSegments, answers \in QuizLists :
       PostTests(p, auth, seg, answers)
  \/ \E p \in Procs : SubmitInsert(p)
  \/ \E auth \in QuizAuthHeaders : GetRecommendations(auth)
  \/ TickTo(JWT_EXPIRES_MINUTES)

QuizSpec == QuizInit /\ [][QuizNext]_vars

\* every protected route, called with every kind of Authorization header,
\* from the store holding two registered students
ProtectedLists == {CorrectFirst("webdev", 5) \o CorrectFirst("ml", 5)}

ProtectedMessages == {<<"H", "T", "M", "L">>, <<"h", "e", "l", "l", "o">>}

\* validly signed tokens whose sub is the id of no stored student
UnknownSubToken == IssuedToken(Len(QuizStudents) + 1, "a@x.com", 0)

UnknownSubBadEmailToken ==
  create_access_token([sub |-> OidStr(Len(QuizStudents) + 1), email |-> "not-an-email"], 0)

\* no header, the token of the first student, and tokens that are not valid
ProtectedAuthHeaders ==
  {<<>>, <<IssuedToken(1, "a@x.com", 0)>>}
    \cup {<<tok>> : tok \in {ExpiredToken, WrongSecretToken, MalformedToken,
                             NoSubToken, NoEmailToken, BadSubToken,
                             UnknownSubToken, UnknownSubBadEmailToken}}

ProtectedNext ==
  \/ \E p \in Procs, auth \in ProtectedAuthHeaders, seg \in Segments, answers \in ProtectedLists :
       PostTests(p, auth, seg, answers)
  \/ \E p \in Procs : SubmitInsert(p)
  \/ \E auth \in ProtectedAuthHeaders, seg \in Segments : GetTests(auth, seg)
  \/ \E auth \in ProtectedAuthHeaders : GetRecommendations(auth)
  \/ \E auth \in ProtectedAuthHeaders : GetDocs(auth)
  \/ \E auth \in ProtectedAuthHeaders, message \in ProtectedMessages : PostChat(auth, message)
  \/ Tick

ProtectedSpec == QuizInit /\ [][ProtectedNext]_vars

\* the chat route, called by either student or without a token, while
\* submissions change the store
ChatNext ==
  \/ \E auth \in QuizAuthHeaders, message \in ChatMessages : PostChat(auth, message)
  \/ \E p \in Procs, auth \in QuizAuthHeaders, seg \in Tracks, answers \in ProtectedLists :
       PostTests(p, auth, seg, answers)
  \/ \E p \in Procs : SubmitInsert(p)
  \/ TickTo(JWT_EXPIRES_MINUTES)

ChatSpec == QuizInit /\ [][ChatNext]_vars

\* map_percentage_to_level applied to every percentage up to MaxPct/100
Percentages == {Float(c, r) : c \in 0..MaxPct, r \in {-1, 0, 1}}

LevelInit ==
  /\ students = <<>>
  /\ test_results = <<>>
  /\ now = 0
  /\ task = [p \in Procs |-> Idle]
  /\ resp = NoResponse
  /\ probe \in {[fn |-> "map_percentage_to_level", arg |-> x, done |-> FALSE,
                  out |-> ""] : x \in Percentages}

ApplyLevel ==
  /\ probe.fn = "map_percentage_to_level"
  /\ ~probe.done
  /\ probe' = [probe EXCEPT !.done = TRUE, !.out = map_percentage_to_level(probe.arg)]
  /\ UNCHANGED <<students, test_results, now, task, resp>>

LevelSpec == LevelInit /\ [][ApplyLevel]_vars

\* the scoring of submit_test applied to bounded answer lists
Alphabet ==
  {Answer("w1", 1), Answer("w1", 0), Answer("w10", 0), Answer("m1", 1), Answer("zz", 0)}

\* every question of a track answered with the same option
AnswerAll(track, opt) ==
  [i \in 1..Len(QuestionsOf(track)) |-> Answer(QuestionsOf(track)[i].id, opt)]

ScoreLists ==
  UNION {[1..n -> Alphabet] : n \in 0..MaxLen}
    \cup {Repeat(a, n) : a \in Alphabet, n \in 0..MaxRepeat}
    \cup {CorrectFirst(tr, k) : tr \in Tracks, k \in 0..10}
    \cup {AnswerAll(tr, opt) : tr \in Tracks, opt \in 0..3}
    \cup QuizLists

ScoreInit ==
  /\ students = <<>>
  /\ test_results = <<>>
  /\ now = 0
  /\ task = [p \in Procs |-> Idle]
  /\ resp = NoResponse
  /\ probe \in {[fn |-> "Grade", arg |-> [track |-> tr, answers |-> a],
                  done |-> FALSE, out |-> Grade(tr, <<>>)] :
                  tr \in Tracks, a \in ScoreLists}

ApplyGrade ==
  /\ probe.fn = "Grade"
  /\ ~probe.done
  /\ probe' = [probe EXCEPT !.done = TRUE,
                             !.out = Grade(probe.arg.track, probe.arg.answers)]
  /\ UNCHANGED <<students, test_results, now, task, resp>>

ScoreSpec == ScoreInit /\ [][ApplyGrade]_vars

(***************************************************************************)
(* Claims.  Sent(r) holds of a step that sends a response to a request     *)
(* satisfying r.                                                           *)
(***************************************************************************)
IsRegister(req) == req.method = "POST" /\ req.path = <<"auth", "register">>

StoredEmails == {students[i].email : i \in 1..Len(students)}

\* C1: with the register requests handled one after another, a request whose
\* email is already stored is answered 400 and leaves students unchanged; a
\* request whose email is not stored is answered 201 and appends exactly one
\* student record, of that email.
C1_SequentialRegister ==
  [][(resp' # resp /\ IsRegister(resp'.req)) =>
       IF resp'.req.body.email \in StoredEmails
       THEN /\ resp'.status = 400
            /\ students' = students
       ELSE /\ resp'.status = 201
            /\ Len(students') = Len(students) + 1
            /\ SubSeq(students', 1, Len(students)) = students
            /\ students'[Len(students')].email = resp'.req.body.email]_vars

\* a duplicate registration was rejected after the first one was stored
C1_Witness ==
  /\ IsRegister(resp.req)
  /\ resp.status = 400
  /\ Len(students) = 1
  /\ students[1].email = resp.req.body.email

\* C2: no two student records have the same email, whatever the interleaving
\* of the register requests.
C2_EmailUnique ==
  \A i, j \in 1..Len(students) : i # j => students[i].email # students[j].email

\* C3: a GET of tests/levels with a valid bearer token is answered 200 with
\* the caller's levels.
C3_LevelsAnswered ==
  [][(/\ resp' # resp
      /\ resp'.req.method = "GET"
      /\ resp'.req.path = <<"tests", "levels">>
      /\ get_current_student(resp'.req.auth, now).ok) =>
       /\ resp'.status = 200
       /\ resp'.body.kind = "levels"]_vars

\* C4: every persisted QuizResult row has 0 <= score <= total.
C4_ScoreWithinTotal ==
  \A i \in 1..Len(test_results) :
    0 <= test_results[i].score /\ test_results[i].score <= test_results[i].total

\* the answers of a list that name a question of the track and its correct option
CorrectMatches(track, answers) ==
  {i \in 1..Len(answers) :
     \E k \in 1..Len(QuestionsOf(track)) :
       /\ QuestionsOf(track)[k].id = answers[i].questionId
       /\ QuestionsOf(track)[k].correctIndex = answers[i].optionIndex}

\* the answers of a list whose questionId is an id of the track
KnownAnswers(track, answers) ==
  {i \in 1..Len(answers) :
     \E k \in 1..Len(QuestionsOf(track)) :
       QuestionsOf(track)[k].id = answers[i].questionId}

\* C5: for a known track and any answer list, the score is the number of
\* submitted answers that name a question of the track and its correct
\* option (an answer of unknown questionId counts nothing and raises no
\* error), and total is the size of the question set, 10.
C5_ScoreCountsCorrect ==
  (probe.fn = "Grade" /\ probe.done) =>
    /\ probe.out.score = Cardinality(CorrectMatches(probe.arg.track, probe.arg.answers))
    /\ probe.out.total = Len(QuestionsOf(probe.arg.track))
    /\ probe.out.total = 10

\* a list with an unknown id before a correct answer was graded
C5_Witness ==
  /\ probe.fn = "Grade"
  /\ probe.done
  /\ probe.out.score >= 1
  /\ \E i, j \in 1..Len(probe.arg.answers) :
       /\ i < j
       /\ i \notin KnownAnswers(probe.arg.track, probe.arg.answers)
       /\ j \in CorrectMatches(probe.arg.track, probe.arg.answers)

\* C6: the level depends on the percentage alone: at most 40 is Beginner,
\* above 40 and at most 75 is Intermediate, above 75 is Advanced; 40.0 is
\* Beginner, 40.01 Intermediate, 75.0 Intermediate, 75.01 Advanced.
C6_LevelThresholds ==
  (probe.fn = "map_percentage_to_level" /\ probe.done) =>
    LET x == probe.arg
        atMost40 == x.c < 4000 \/ (x.c = 4000 /\ x.r <= 0)
        atMost75 == x.c < 7500 \/ (x.c = 7500 /\ x.r <= 0)
    IN  /\ probe.out \in {"Beginner", "Intermediate", "Advanced"}
        /\ atMost40 => probe.out = "Beginner"
        /\ (~atMost40 /\ atMost75) => probe.out = "Intermediate"
        /\ ~atMost75 => probe.out = "Advanced"
        /\ x = Float(4000, 0) => probe.out = "Beginner"
        /\ x = Float(4001, 0) => probe.out = "Intermediate"
        /\ x = Float(7500, 0) => probe.out = "Intermediate"
        /\ x = Float(7501, 0) => probe.out = "Advanced"

\* 75.0 was mapped, to Intermediate
C6_Witness ==
  /\ probe.fn = "map_percentage_to_level"
  /\ probe.done
  /\ probe.arg = Float(7500, 0)
  /\ probe.out = "Intermediate"

\* a step in which a submission succeeds: its insert completes and the 200
\* response with the result is sent
SubmitSucceeds ==
  \E p \in Procs :
    /\ task[p].pc = "submit_insert"
    /\ task'[p] = Idle
    /\ resp'.req = task[p].req
    /\ resp'.status = 200
    /\ resp'.body.kind = "result"

\* C7: test_results is append-only: a step in which a submission succeeds
\* adds exactly one row, of a new id, and changes no stored row and no
\* student record; no other step changes test_results.  So n successful
\* submissions leave exactly n rows.
C7_AppendOnly ==
  [][/\ Len(test_results') >= Len(test_results)
     /\ SubSeq(test_results', 1, Len(test_results)) = test_results
     /\ SubmitSucceeds =>
          /\ Len(test_results') = Len(test_results) + 1
          /\ \A i \in 1..Len(test_results) :
               test_results[i]._id # test_results'[Len(test_results')]._id
          /\ students' = students
     /\ ~SubmitSucceeds => test_results' = test_results]_vars

\* the same answers were submitted twice, at the same time, and two rows of
\* different ids hold the same result
C7_Witness ==
  /\ Len(test_results) = 2
  /\ test_results[1]._id # test_results[2]._id
  /\ [test_results[1] EXCEPT !._id = 0] = [test_results[2] EXCEPT !._id = 0]
  /\ resp.status = 200
  /\ resp.body.kind = "result"

RowsOf(student_id, track) ==
  {i \in 1..Len(test_results) :
     /\ test_results[i].student_id = student_id
     /\ test_results[i].track = track}

\* the rows of a student in a track that no other such row is later than
LatestRows(student_id, track) ==
  {i \in RowsOf(student_id, track) :
     \A j \in RowsOf(student_id, track) :
       test_results[j].submitted_at.iso <= test_results[i].submitted_at.iso}

\* C8: the levels computed for a student hold, for each track, exactly the
\* level and percentage of the student's latest submission in that track
\* (latest by submitted_at), and nothing for a track without a submission.
C8_LatestLevels ==
  \A s \in 1..Len(students) :
    LET sid == students[s]._id IN
    /\ get_latest_levels_for_student(sid) # {}
    /\ \A lv \in get_latest_levels_for_student(sid), tr \in Tracks :
         IF RowsOf(sid, tr) = {} THEN lv[tr] = <<>>
         ELSE \E i \in LatestRows(sid, tr) :
                lv[tr] = <<[level |-> test_results[i].level,
                            percentage |-> test_results[i].percentage]>>

\* a student has two webdev rows of different levels, the later submission
\* stored first, and has been sent recommendations for the later one's level
C8_Witness ==
  /\ Len(test_results) = 2
  /\ test_results[1].student_id = test_results[2].student_id
  /\ test_results[1].track = "webdev"
  /\ test_results[2].track = "webdev"
  /\ test_results[1].level # test_results[2].level
  /\ test_results[2].submitted_at.iso < test_results[1].submitted_at.iso
  /\ resp.status = 200
  /\ resp.body.kind = "recommendations"
  /\ get_current_student(resp.req.auth, now).ok
  /\ get_current_student(resp.req.auth, now).student._id = test_results[1].student_id
  /\ \A i \in 1..Len(resp.body.webdev) :
       resp.body.webdev[i].difficulty = test_results[1].level

CatalogIndex(course) == CHOOSE k \in 1..Len(COURSES) : COURSES[k] = course

\* list holds exactly the catalog courses of the track and difficulty, in
\* catalog order
IsCatalogSelection(list, track, difficulty) ==
  /\ \A i \in 1..Len(list) :
       /\ \E k \in 1..Len(COURSES) : COURSES[k] = list[i]
       /\ list[i].track = track
       /\ list[i].difficulty = difficulty
  /\ \A k \in 1..Len(COURSES) :
       (COURSES[k].track = track /\ COURSES[k].difficulty = difficulty)
         => \E i \in 1..Len(list) : list[i] = COURSES[k]
  /\ \A i, j \in 1..Len(list) :
       i < j => CatalogIndex(list[i]) < CatalogIndex(list[j])

\* the difficulty a track's recommendations are selected by
TargetDifficulties(student_id, track) ==
  IF RowsOf(student_id, track) = {} THEN {"Beginner"}
  ELSE {test_results[i].level : i \in LatestRows(student_id, track)}

\* C9: the recommendations sent to a student hold, for each track, exactly
\* the catalog courses of that track whose difficulty is the student's
\* latest level in the track (Beginner without a submission), in catalog
\* order.
C9_Recommendations ==
  [][(resp' # resp /\ resp'.status = 200 /\ resp'.body.kind = "recommendations") =>
       LET current == get_current_student(resp'.req.auth, now) IN
       /\ current.ok
       /\ \A tr \in Tracks :
            \E d \in TargetDifficulties(current.student._id, tr) :
              IsCatalogSelection(resp'.body[tr], tr, d)]_vars

\* a student whose latest webdev level is Advanced and who has no ml
\* submission was sent the Advanced webdev and the Beginner ml courses
C9_Witness ==
  /\ resp.status = 200
  /\ resp.body.kind = "recommendations"
  /\ get_current_student(resp.req.auth, now).ok
  /\ LET sid == get_current_student(resp.req.auth, now).student._id IN
     /\ RowsOf(sid, "ml") = {}
     /\ TargetDifficulties(sid, "webdev") = {"Advanced"}
  /\ IsCatalogSelection(resp.body.webdev, "webdev", "Advanced")
  /\ IsCatalogSelection(resp.body.ml, "ml", "Beginner")
  /\ Len(resp.body.webdev) = 2
  /\ Len(resp.body.ml) = 2

IsProtected(req) ==
  \/ req.path \in {<<"recommendations">>, <<"docs">>}
  \/ Len(req.path) = 2 /\ req.path[1] = "tests"

\* the token is one the claim says is rejected: signed with another secret,
\* expired, malformed, without sub or email, or of a sub that is the id of no
\* stored student
RejectedToken(tok) ==
  \/ ~tok.wf
  \/ tok.key # JWT_SECRET
  \/ tok.wf /\ "exp" \in DOMAIN tok.payload /\ tok.payload.exp < now
  \/ tok.wf /\ "sub" \notin DOMAIN tok.payload
  \/ tok.wf /\ "email" \notin DOMAIN tok.payload
  \/ tok.wf /\ "sub" \in DOMAIN tok.payload
       /\ \A i \in 1..Len(students) : OidStr(students[i]._id) # tok.payload.sub

\* C10: a protected request carrying such a token is answered 401 with the
\* detail "Could not validate credentials".
C10_InvalidTokenRejected ==
  [][(/\ resp' # resp
      /\ IsProtected(resp'.req)
      /\ resp'.req.auth # <<>>
      /\ RejectedToken(resp'.req.auth[1])) =>
       /\ resp'.status = 401
       /\ resp'.detail = "Could not validate credentials"]_vars

\* a request to one of the routes that require a bearer token
IsProtectedOp(req) ==
  \/ req.method = "GET" /\ req.path \in {<<"recommendations">>, <<"docs">>}
  \/ req.method = "POST" /\ req.path = <<"chat">>
  \/ req.method \in {"GET", "POST"} /\ Len(req.path) = 2 /\ req.path[1] = "tests"

\* the Authorization header is missing, or its token is invalid or expired
NoValidToken(auth) == auth = <<>> \/ RejectedToken(auth[1])

\* C11: a protected operation called with a missing, invalid or expired
\* token is answered 401 and changes neither collection; no submit_test
\* request without a valid token gets as far as its insert.
C11_Unauthenticated ==
  [][/\ (/\ resp' # resp
         /\ task' = task
         /\ IsProtectedOp(resp'.req)
         /\ NoValidToken(resp'.req.auth)) =>
          /\ resp'.status = 401
          /\ students' = students
          /\ test_results' = test_results
     /\ \A p \in Procs :
          (task[p] = Idle /\ task'[p] # Idle) => ~NoValidToken(task'[p].req.auth)]_vars

IsLogin(req) == req.method = "POST" /\ req.path = <<"auth", "login">>

\* the email of the login request is that of no stored student
UnknownEmail(payload) == payload.email \notin StoredEmails

\* the email is stored, and the password is that of no student of that email
WrongPassword(payload) ==
  /\ payload.email \in StoredEmails
  /\ \A i \in 1..Len(students) :
       students[i].email = payload.email =>
         ~verify_password(payload.password, students[i].password_hash)

\* C12: a login with an unregistered email and a login with a registered
\* email and a wrong password get the same response, 400 with the detail
\* "Incorrect email or password" and no token, and change no stored state.
C12_LoginFailuresAlike ==
  [][(/\ resp' # resp
      /\ IsLogin(resp'.req)
      /\ UnknownEmail(resp'.req.body) \/ WrongPassword(resp'.req.body)) =>
       /\ resp'.status = 400
       /\ resp'.detail = "Incorrect email or password"
       /\ resp'.body = NoBody
       /\ students' = students
       /\ test_results' = test_results]_vars

\* a login with a stored email and a password that is not its own was refused
C12_Witness ==
  /\ IsLogin(resp.req)
  /\ WrongPassword(resp.req.body)
  /\ resp.status = 400
  /\ resp.detail = "Incorrect email or password"

\* tok is the token login issues for the stored student s
IsLoginTokenOf(tok, s) ==
  tok = create_access_token([sub |-> OidStr(s._id), email |-> s.email],
                            tok.payload.exp - JWT_EXPIRES_MINUTES)

\* C13: a login with the email and password of a registered student is
\* answered 200 with a token that expires JWT_EXPIRES_MINUTES after its issue
\* and authenticates as that student's record; such a token presented on a
\* protected operation before its expiry authenticates as exactly that
\* record, and after its expiry is answered 401.
C13_TokenLifetime ==
  [][/\ (resp' # resp /\ IsLogin(resp'.req)) =>
          \A i \in 1..Len(students) :
            (/\ students[i].email = resp'.req.body.email
             /\ verify_password(resp'.req.body.password, students[i].password_hash)) =>
               /\ resp'.status = 200
               /\ resp'.body.kind = "token"
               /\ resp'.body.access_token.payload.exp = now + JWT_EXPIRES_MINUTES
               /\ get_current_student(<<resp'.body.access_token>>, now).ok
               /\ get_current_student(<<resp'.body.access_token>>, now).student
                    = students[i]
     /\ (/\ resp' # resp
         /\ task' = task
         /\ IsProtectedOp(resp'.req)
         /\ resp'.req.auth # <<>>) =>
          \A i \in 1..Len(students) :
            IsLoginTokenOf(resp'.req.auth[1], students[i]) =>
              /\ now < resp'.req.auth[1].payload.exp =>
                   /\ resp'.status # 401
                   /\ get_current_student(resp'.req.auth, now).ok
                   /\ get_current_student(resp'.req.auth, now).student = students[i]
              /\ now > resp'.req.auth[1].payload.exp => resp'.status = 401]_vars

\* C14: the question listing of a known track, called with a valid token,
\* is answered 200 with the track's 10 questions in their fixed order, each
\* with its id, its prompt and its 4 options and with no other field: no
\* correctIndex.
C14_QuestionListing ==
  [][(/\ resp' # resp
      /\ resp'.req.method = "GET"
      /\ Len(resp'.req.path) = 2
      /\ resp'.req.path[1] = "tests"
      /\ resp'.req.path[2] \in Tracks
      /\ get_current_student(resp'.req.auth, now).ok) =>
       LET full == IF resp'.req.path[2] = "webdev"
                   THEN WEBDEV_QUESTIONS_FULL ELSE ML_QUESTIONS_FULL
           listed == resp'.body.questions
       IN
       /\ resp'.status = 200
       /\ resp'.body.track = resp'.req.path[2]
       /\ Len(listed) = 10
       /\ Len(full) = 10
       /\ \A i \in 1..10 :
            /\ DOMAIN listed[i] = {"id", "question", "options"}
            /\ listed[i].id = full[i].id
            /\ listed[i].question = full[i].question
            /\ listed[i].options = full[i].options
            /\ Len(listed[i].options) = 4]_vars

\* the webdev questions were listed for a student with a valid token
C14_Witness ==
  /\ resp.req.method = "GET"
  /\ resp.req.path = <<"tests", "webdev">>
  /\ get_current_student(resp.req.auth, now).ok
  /\ resp.status = 200
  /\ resp.body.kind = "questions"
  /\ Len(resp.body.questions) = 10
  /\ resp.body.questions[10].id = "w10"

OrdersOf(n) ==
  {f \in [1..n -> 1..n] : \A i, j \in 1..n : i # j => f[i] # f[j]}

Permuted(answers, f) == [i \in 1..Len(answers) |-> answers[f[i]]]

Reversed(answers) == [i \in 1..Len(answers) |-> answers[Len(answers) + 1 - i]]

\* answers with the entries at k and k + 1 exchanged
Swapped(answers, k) ==
  [i \in 1..Len(answers) |->
     IF i = k THEN answers[k + 1] ELSE IF i = k + 1 THEN answers[k] ELSE answers[i]]

\* C16: for a fixed track, score, percentage and level are the same for
\* every order of the same answers (every permutation of a list of up to
\* MaxLen answers; the reversal and every exchange of two neighbours of a
\* longer one), and adding one answer never lowers the score and raises it by
\* exactly one when the added answer is a correct match.
C16_OrderAndMonotone ==
  (probe.fn = "Grade" /\ probe.done) =>
    LET track == probe.arg.track
        answers == probe.arg.answers
    IN
    /\ Len(answers) <= MaxLen =>
         \A f \in OrdersOf(Len(answers)) :
           Grade(track, Permuted(answers, f)) = probe.out
    /\ Grade(track, Reversed(answers)) = probe.out
    /\ \A k \in 1..(Len(answers) - 1) :
         Grade(track, Swapped(answers, k)) = probe.out
    /\ \A a \in Alphabet :
         LET more == Grade(track, Append(answers, a)) IN
         /\ more.score >= probe.out.score
         /\ CorrectMatches(track, <<a>>) # {} => more.score = probe.out.score + 1
         /\ CorrectMatches(track, <<a>>) = {} => more.score = probe.out.score

\* a list of an unknown id, a correct and a wrong answer to w1 was graded 1
C16_Witness ==
  /\ probe.fn = "Grade"
  /\ probe.done
  /\ probe.arg.track = "webdev"
  /\ probe.arg.answers = <<Answer("zz", 0), Answer("w1", 1), Answer("w1", 0)>>
  /\ probe.out.score = 1

\* 100 * score / total, exactly
ExactPercentage(score, total) == Float((100 * score * 100) \div total, 0)

\* C17: every persisted QuizResult row has percentage equal to
\* 100 * score / total for its own score and total, and level equal to the
\* threshold mapping of that percentage; the percentage and level sent to the
\* caller are those of the row the same request persisted.
C17_PercentageAndLevel ==
  [][/\ \A i \in 1..Len(test_results') :
          /\ test_results'[i].total > 0
          /\ (100 * test_results'[i].score * 100) % test_results'[i].total = 0
          /\ test_results'[i].percentage
               = ExactPercentage(test_results'[i].score, test_results'[i].total)
          /\ test_results'[i].level
               = map_percentage_to_level(test_results'[i].percentage)
     /\ SubmitSucceeds =>
          /\ resp'.body.percentage = test_results'[Len(test_results')].percentage
          /\ resp'.body.level = test_results'[Len(test_results')].level]_vars

IsChat(req) == req.method = "POST" /\ req.path = <<"chat">>

\* the rules in their fixed order: whether each matches the text, and its reply
RuleMatches(text) ==
  << StrIn(KwHtml, text),
     StrIn(KwCss, text),
     StrIn(KwJavascript, text) \/ StrIn(KwJs, text),
     StrIn(KwMachineLearning, text) \/ StrIn(KwMl, text),
     StrIn(KwWeb, text) /\ StrIn(KwDevelopment, text),
     TRUE >>

RuleReplies == <<ReplyHtml, ReplyCss, ReplyJs, ReplyMl, ReplyWebDev, ReplyFallback>>

\* the reply of the earliest rule that matches the lower-cased message
FirstMatchReply(message) ==
  LET hit == RuleMatches(StrLower(message)) IN
  RuleReplies[CHOOSE k \in 1..Len(hit) : hit[k] /\ \A j \in 1..(k - 1) : ~hit[j]]

\* C18: the chat reply to an authenticated caller is the reply of the first
\* rule, in the fixed order, that matches the lower-cased message, and the
\* generic fallback when none does; it is a function of the message alone,
\* and the operation changes no stored state.
C18_ChatFirstMatch ==
  [][(/\ resp' # resp
      /\ IsChat(resp'.req)
      /\ get_current_student(resp'.req.auth, now).ok) =>
       /\ resp'.status = 200
       /\ resp'.body.reply = FirstMatchReply(resp'.req.body.message)
       /\ students' = students
       /\ test_results' = test_results
       /\ task' = task]_vars

\* a message in mixed case matching the html rule and the web development
\* rule got the html reply, with a submission stored
C18_Witness ==
  /\ IsChat(resp.req)
  /\ resp.req.body.message
       = <<"H", "t", "M", "l", " ", "W", "e", "b", " ",
           "D", "e", "v", "e", "l", "o", "p", "m", "e", "n", "t">>
  /\ resp.status = 200
  /\ resp.body.reply = ReplyHtml
  /\ Len(test_results) > 0

\* the rows referencing a student, in stored order
RowsOfStudent(student_id) ==
  LET Mine(row) == row.student_id = student_id IN SelectSeq(test_results, Mine)

\* the recommendations a student may be sent in the current store
RecommendationsOf(student_id) ==
  {[webdev |-> filter_courses("webdev", lv.webdev),
    ml |-> filter_courses("ml", lv.ml)] :
     lv \in get_latest_levels_for_student(student_id)}

\* C19: the row a successful submit_test persists references the student
\* the request's token identifies; a step that changes test_results and
\* leaves a student's own rows as they are (a submission by another student)
\* leaves the levels and the recommendations of that student as they are;
\* and the recommendations sent to a student are selected by that student's
\* own rows.
C19_OwnRowsOnly ==
  [][/\ SubmitSucceeds =>
          LET row == test_results'[Len(test_results')] IN
          /\ resp'.req.auth # <<>>
          /\ OidStr(row.student_id) = resp'.req.auth[1].payload.sub
          /\ \E i \in 1..Len(students) : students[i]._id = row.student_id
     /\ test_results' # test_results =>
          \A i \in 1..Len(students) :
            RowsOfStudent(students[i]._id)' = RowsOfStudent(students[i]._id) =>
              /\ get_latest_levels_for_student(students[i]._id)'
                   = get_latest_levels_for_student(students[i]._id)
              /\ RecommendationsOf(students[i]._id)'
                   = RecommendationsOf(students[i]._id)
     /\ (resp' # resp /\ resp'.status = 200 /\ resp'.body.kind = "recommendations") =>
          \E i \in 1..Len(students) :
            /\ OidStr(students[i]._id) = resp'.req.auth[1].payload.sub
            /\ \A tr \in Tracks :
                 \E d \in TargetDifficulties(students[i]._id, tr) :
                   IsCatalogSelection(resp'.body[tr], tr, d)]_vars

\* the first student's webdev row is Advanced, the second student's is
\* Beginner, and the second student was sent the Beginner webdev courses
C19_Witness ==
  /\ Len(test_results) = 2
  /\ test_results[1].student_id = 1
  /\ test_results[1].track = "webdev"
  /\ test_results[1].level = "Advanced"
  /\ test_results[2].student_id = 2
  /\ test_results[2].track = "webdev"
  /\ test_results[2].level = "Beginner"
  /\ resp.status = 200
  /\ resp.body.kind = "recommendations"
  /\ resp.req.auth = <<IssuedToken(2, "b@x.com", 0)>>
  /\ IsCatalogSelection(resp.body.webdev, "webdev", "Beginner")

====
